---- MODULE Spec2Model ----
(***************************************************************************)
(* Third-party login handshake of modules/user/api_gitee.go: the authcode  *)
(* endpoints (thirdAuthcode, thirdAuthStatus) and the two OAuth callbacks  *)
(* (giteeOAuth, mallOAuth) around the redis handoff entry and the          *)
(* provisioning transaction; and EchoooPush.Push of the webhook package    *)
(* with its redis presence marker.                                         *)
(*                                                                         *)
(* Strings are sequences of tokens, so that len(result) == 0 and           *)
(* fmt.Sprintf("%s%s", prefix, authcode) are computed as in the code.      *)
(* Time is counted in minutes; a redis entry carries its remaining time    *)
(* to live and disappears when it reaches zero.                            *)
(***************************************************************************)
EXTENDS Integers, Sequences, FiniteSets, TLC

\* ------------------------------------------------------------------ bounds

\* number of authcodes util.GenerUUID hands out in thirdAuthcode
MaxAuthcodes == 1
\* number of servers in the configured serverAddresses of EchoooPush
NumServers == 2

\* ------------------------------------------------------- program constants

ThirdAuthcodePrefix == <<"thirdlogin:authcode:">>
ECHOOO_PUSH_UID == <<"tsdd:echooo:push_uid:">>
PendingTTL == 5
ResultTTL == 1
PushTTL == 5

\* ------------------------------------------------------------ value spaces

UUIDs == <<"a1", "a2", "a3", "a4">>
\* the values util.GenerUUID hands out as uids of new accounts
UserUUIDs == <<"n1", "n2", "n3", "n4", "n5", "n6", "n7", "n8", "n9", "n10", "n11", "n12">>
Authcodes == {<<UUIDs[n]>> : n \in 1..MaxAuthcodes}
\* what a request can carry in ?authcode= / ?state= : an issued code or nothing
QueryAuthcodes == Authcodes \cup {<<>>}
Callbacks == {"c1", "c2"}
Polls == {"p1", "p2"}
Logins == {"g1", "g2"}
Providers == {"gitee", "mall"}
\* recipients of Push and the calls of Push in flight
Uids == {"u1", "u2"}
Pushers == {"q1", "q2"}

NoUser == [uid |-> <<>>, giteeUID |-> "", isDestroy |-> 0, isUploadAvatar |-> 0]
NoResp == [uid |-> <<>>]
Absent == [val |-> <<>>, ttl |-> 0]

Key(authcode) == ThirdAuthcodePrefix \o authcode
Keys == {Key(a) : a \in QueryAuthcodes}
\* fmt.Sprintf("%s%s", ECHOOO_PUSH_UID, uid)
PushKey(uid) == ECHOOO_PUSH_UID \o <<uid>>
PushKeys == {PushKey(u) : u \in Uids}
\* strings.Split(m.serverAddresses, ","): the servers in their configured order
Servers == 1..NumServers

VARIABLES
    store,       \* redis: key -> [val, ttl]
    users,       \* committed rows of the user table
    giteeUsers,  \* committed rows of the gitee_user table
    tx,          \* per callback: the open transaction's uncommitted rows
    cb,          \* per callback request: position and locals
    poll,        \* per poll request: position, locals and response
    nextUUID,    \* how many authcodes thirdAuthcode has generated
    age,         \* history: minutes since the authcode was issued, counted while no
                 \* callback has written under it (-1 before the issue, PendingTTL
                 \* for that or more, 0 from the first callback write on)
    written,     \* history: a callback has written a result under the key
    delivered,   \* history: the result last written under the key has been
                 \* returned by a poll: "no", "yes", or "undeleted" when that
                 \* poll's Del failed
    marker,      \* redis: push key -> [val, ttl], the presence marker of a uid
    push         \* per Push call: position, locals and return value

vars == <<store, users, giteeUsers, tx, cb, poll, nextUUID, age, written, delivered,
          marker, push>>

\* ------------------------------------------------------------------- redis

SetAndExpire(s, key, val, ttl) == [s EXCEPT ![key] = [val |-> val, ttl |-> ttl]]
GetString(s, key) == s[key].val
Del(s, key) == [s EXCEPT ![key] = Absent]

Min(a, b) == IF a < b THEN a ELSE b

\* ---------------------------------------------------------- serialisation

\* util.ToJson of a loginUserDetailResp: an object, never a bare "0" or "1"
ToJson(resp) == <<"{", "uid">> \o resp.uid \o <<"}">>
IsJson(s) == Len(s) >= 3 /\ s[1] = "{" /\ s[2] = "uid" /\ s[Len(s)] = "}"
\* util.ReadJsonByByte into *loginUserDetailResp
ReadJsonByByte(s) == [uid |-> SubSeq(s, 3, Len(s) - 1)]

\* -------------------------------------------------------------------- init

PreUser(g) == [uid |-> <<"pre", g>>, giteeUID |-> g, isDestroy |-> 1, isUploadAvatar |-> 0]
PreGitee(g) == [login |-> g, by |-> "pre"]

IdleCb == [pc |-> "idle", provider |-> "", authcode |-> <<>>, login |-> "", branch |-> "",
           userInfoM |-> NoUser, uid |-> <<>>, isUploadAvatar |-> 0, loginResp |-> NoResp,
           err |-> ""]
IdlePoll == [pc |-> "idle", authcode |-> <<>>, result |-> <<>>, status |-> -1,
             resp |-> NoResp, err |-> ""]
NoTx == [open |-> FALSE, gitee |-> {}, users |-> {}]
\* server: the server of the last post of the call (0 before any post);
\* sent: that post was answered; ret: the returned error, "nil" for none
IdlePush == [pc |-> "idle", uid |-> "", server |-> 0, sent |-> FALSE, ret |-> ""]

\* The tables start empty, or hold accounts that the account subsystem has
\* since marked destroyed (together with their gitee_user rows).
Init ==
    /\ store = [k \in Keys |-> Absent]
    /\ \E D \in SUBSET Logins :
          /\ users = {PreUser(g) : g \in D}
          /\ giteeUsers = {PreGitee(g) : g \in D}
    /\ tx = [c \in Callbacks |-> NoTx]
    /\ cb = [c \in Callbacks |-> IdleCb]
    /\ poll = [p \in Polls |-> IdlePoll]
    /\ nextUUID = 0
    /\ age = [a \in Authcodes |-> -1]
    /\ written = [k \in Keys |-> FALSE]
    /\ delivered = [k \in Keys |-> "no"]
    /\ marker = [k \in PushKeys |-> Absent]
    /\ push = [q \in Pushers |-> IdlePush]

\* ----------------------------------------------------------- thirdAuthcode

\* thirdAuthcode with a pending entry that lives a minute longer.
thirdAuthcodeLonger(redisErr) ==
    /\ nextUUID < MaxAuthcodes
    /\ LET authcode == <<UUIDs[nextUUID + 1]>> IN
       /\ nextUUID' = nextUUID + 1
       /\ IF redisErr
          THEN UNCHANGED <<store, age>>
          ELSE /\ store' = SetAndExpire(store, Key(authcode), <<"1">>, PendingTTL + 1)
               /\ age' = [age EXCEPT ![authcode] = 0]
    /\ UNCHANGED <<users, giteeUsers, tx, cb, poll, written, delivered, marker, push>>

\* GET /user/thirdlogin/authcode. redisErr: SetAndExpire returns an error.
thirdAuthcode(redisErr) ==
    /\ nextUUID < MaxAuthcodes
    /\ LET authcode == <<UUIDs[nextUUID + 1]>> IN
       /\ nextUUID' = nextUUID + 1
       /\ IF redisErr
          THEN UNCHANGED <<store, age>>
          ELSE /\ store' = SetAndExpire(store, Key(authcode), <<"1">>, PendingTTL)
               /\ age' = [age EXCEPT ![authcode] = 0]
    /\ UNCHANGED <<users, giteeUsers, tx, cb, poll, written, delivered, marker, push>>

\* --------------------------------------------------------- thirdAuthStatus

\* StatusOf without the branch for the pending sentinel.
StatusOfNoPending(result) ==
    IF Len(result) = 0 THEN [status |-> -1, err |-> "expired"]
    ELSE IF result = <<"0">> THEN [status |-> 2, err |-> ""]
    ELSE [status |-> 1, err |-> ""]

\* StatusOf with the two sentinels exchanged.
StatusOfSwapped(result) ==
    IF Len(result) = 0 THEN [status |-> -1, err |-> "expired"]
    ELSE IF result = <<"0">> THEN [status |-> 0, err |-> ""]
    ELSE IF result = <<"1">> THEN [status |-> 2, err |-> ""]
    ELSE [status |-> 1, err |-> ""]

\* The response for a value that needs no delete: lines 52-67.
StatusOf(result) ==
    IF Len(result) = 0 THEN [status |-> -1, err |-> "expired"]
    ELSE IF result = <<"1">> THEN [status |-> 0, err |-> ""]
    ELSE IF result = <<"0">> THEN [status |-> 2, err |-> ""]
    ELSE [status |-> 1, err |-> ""]

\* PollGet that writes the pending entry back with a fresh expiry.
PollGetRefresh(p, authcode, redisErr) ==
    /\ poll[p].pc \in {"idle", "done"}
    /\ LET result == GetString(store, Key(authcode))
           st == StatusOf(result) IN
       /\ poll' = [poll EXCEPT ![p] =
                    IF redisErr
                    THEN [IdlePoll EXCEPT !.pc = "done", !.authcode = authcode,
                                          !.err = "redis"]
                    ELSE IF st.status = 1
                    THEN [IdlePoll EXCEPT !.pc = "del", !.authcode = authcode,
                                          !.result = result]
                    ELSE [IdlePoll EXCEPT !.pc = "done", !.authcode = authcode,
                                          !.status = st.status, !.err = st.err]]
       /\ store' = IF ~redisErr /\ st.status = 0
                   THEN SetAndExpire(store, Key(authcode), result, PendingTTL)
                   ELSE store
    /\ UNCHANGED <<users, giteeUsers, tx, cb, nextUUID, age, written, delivered, marker, push>>

\* GetString and the branches that answer without touching the entry.
PollGet(p, authcode, redisErr) ==
    /\ poll[p].pc \in {"idle", "done"}
    /\ LET result == GetString(store, Key(authcode))
           st == StatusOf(result) IN
       poll' = [poll EXCEPT ![p] =
                  IF redisErr
                  THEN [IdlePoll EXCEPT !.pc = "done", !.authcode = authcode,
                                        !.err = "redis"]
                  ELSE IF st.status = 1
                  THEN [IdlePoll EXCEPT !.pc = "del", !.authcode = authcode,
                                        !.result = result]
                  ELSE [IdlePoll EXCEPT !.pc = "done", !.authcode = authcode,
                                        !.status = st.status, !.err = st.err]]
    /\ UNCHANGED <<store, users, giteeUsers, tx, cb, nextUUID, age, written, delivered, marker, push>>

\* PollDel that returns the payload without deleting the entry.
PollDelKeep(p, redisErr) ==
    /\ poll[p].pc = "del"
    /\ store' = store
    /\ poll' = [poll EXCEPT ![p] =
                  IF IsJson(poll[p].result)
                  THEN [@ EXCEPT !.pc = "done", !.result = <<>>, !.status = 1,
                                 !.resp = ReadJsonByByte(poll[p].result)]
                  ELSE [@ EXCEPT !.pc = "done", !.result = <<>>, !.err = "json"]]
    /\ delivered' = [delivered EXCEPT ![Key(poll[p].authcode)] =
                        IF ~IsJson(poll[p].result) THEN @
                        ELSE IF redisErr THEN "undeleted" ELSE "yes"]
    /\ UNCHANGED <<users, giteeUsers, tx, cb, nextUUID, age, written, marker, push>>

\* Del (its error is logged only), then the payload is parsed and returned.
PollDel(p, redisErr) ==
    /\ poll[p].pc = "del"
    /\ store' = IF redisErr THEN store ELSE Del(store, Key(poll[p].authcode))
    /\ poll' = [poll EXCEPT ![p] =
                  IF IsJson(poll[p].result)
                  THEN [@ EXCEPT !.pc = "done", !.result = <<>>, !.status = 1,
                                 !.resp = ReadJsonByByte(poll[p].result)]
                  ELSE [@ EXCEPT !.pc = "done", !.result = <<>>, !.err = "json"]]
    /\ delivered' = [delivered EXCEPT ![Key(poll[p].authcode)] =
                        IF ~IsJson(poll[p].result) THEN @
                        ELSE IF redisErr THEN "undeleted" ELSE "yes"]
    /\ UNCHANGED <<users, giteeUsers, tx, cb, nextUUID, age, written, marker, push>>

\* -------------------------------------------------------------------- time

\* One minute passes: every entry loses a minute and goes when none is left.
Tick ==
    /\ store' = [k \in Keys |->
                   IF store[k].ttl <= 1 THEN Absent
                   ELSE [store[k] EXCEPT !.ttl = @ - 1]]
    /\ age' = [a \in Authcodes |->
                 IF age[a] < 0 \/ written[Key(a)] THEN age[a]
                 ELSE Min(age[a] + 1, PendingTTL)]
    /\ marker' = [k \in PushKeys |->
                    IF marker[k].ttl <= 1 THEN Absent
                    ELSE [marker[k] EXCEPT !.ttl = @ - 1]]
    /\ UNCHANGED <<users, giteeUsers, tx, cb, poll, nextUUID, written, delivered, push>>

\* -------------------------------------------------- giteeOAuth / mallOAuth

\* The handler has returned: its locals are gone, what stays visible is how it
\* ended and for which identity and branch.
Finish(c, e) == [IdleCb EXCEPT !.pc = "done", !.err = e, !.login = cb[c].login,
                               !.branch = cb[c].branch]

\* CbStart without the check for an empty code.
CbStartNoCheck(c, provider, code, state) ==
    /\ cb[c].pc \in {"idle", "done"}
    /\ cb' = [cb EXCEPT ![c] =
                [IdleCb EXCEPT !.pc = "resolve", !.provider = provider,
                               !.authcode = state]]
    /\ UNCHANGED <<store, users, giteeUsers, tx, poll, nextUUID, age, written, delivered, marker, push>>

\* c.Query("code") / c.Query("token") and the empty check; c.Query("state").
CbStart(c, provider, code, state) ==
    /\ cb[c].pc \in {"idle", "done"}
    /\ cb' = [cb EXCEPT ![c] =
                IF Len(code) = 0
                THEN [IdleCb EXCEPT !.pc = "done", !.provider = provider,
                                    !.err = "empty code"]
                ELSE [IdleCb EXCEPT !.pc = "resolve", !.provider = provider,
                                    !.authcode = state]]
    /\ UNCHANGED <<store, users, giteeUsers, tx, poll, nextUUID, age, written, delivered, marker, push>>

\* requestGiteeAccessToken then requestGiteeUserInfo, or requestMallAccessToken:
\* tokenErr / infoErr are the provider's failures, login the identity it names.
\* mall has the single request, so only tokenErr applies to it.
CbResolve(c, tokenErr, infoErr, login) ==
    /\ cb[c].pc = "resolve"
    /\ cb' = [cb EXCEPT ![c] =
                IF tokenErr THEN Finish(c, "token exchange")
                ELSE IF cb[c].provider = "gitee" /\ infoErr THEN Finish(c, "profile fetch")
                ELSE [@ EXCEPT !.pc = "query", !.provider = "", !.login = login]]
    /\ UNCHANGED <<store, users, giteeUsers, tx, poll, nextUUID, age, written, delivered, marker, push>>

\* u.db.queryWithGiteeUID: the committed user row of that gitee_uid, if any.
queryWithGiteeUID(login) ==
    IF \E u \in users : u.giteeUID = login
    THEN CHOOSE u \in users : u.giteeUID = login
    ELSE NoUser

CbQuery(c, dbErr) ==
    /\ cb[c].pc = "query"
    /\ cb' = [cb EXCEPT ![c] =
                IF dbErr THEN Finish(c, "query")
                ELSE LET userInfoM == queryWithGiteeUID(cb[c].login) IN
                     [@ EXCEPT !.pc = IF userInfoM # NoUser THEN "login" ELSE "avatar",
                               !.branch = IF userInfoM # NoUser THEN "login" ELSE "create",
                               !.userInfoM = userInfoM]]
    /\ UNCHANGED <<store, users, giteeUsers, tx, poll, nextUUID, age, written, delivered, marker, push>>

\* The destroyed flag is not looked at.
IsDestroyedNever(userInfoM) == FALSE

IsDestroyed(userInfoM) == userInfoM.isDestroy = 1

\* The existing-account branch. outcome is what execLogin returns: a response,
\* an error, or neither (a nil response with a nil error).
CbLogin(c, outcome) ==
    /\ cb[c].pc = "login"
    /\ cb' = [cb EXCEPT ![c] =
                IF IsDestroyed(cb[c].userInfoM) THEN Finish(c, "user not exist")
                ELSE IF outcome = "err" THEN Finish(c, "login")
                ELSE IF outcome = "nil" THEN [@ EXCEPT !.pc = "write"]
                ELSE [@ EXCEPT !.pc = "write",
                               !.loginResp = [uid |-> cb[c].userInfoM.uid]]]
    /\ UNCHANGED <<store, users, giteeUsers, tx, poll, nextUUID, age, written, delivered, marker, push>>

\* The uids some request, row, redis entry or response still holds.
UsedUIDs ==
    {u.uid : u \in users}
    \cup UNION {{u.uid : u \in tx[c].users} : c \in Callbacks}
    \cup UNION {{cb[c].uid, cb[c].loginResp.uid, cb[c].userInfoM.uid} : c \in Callbacks}
    \cup {ReadJsonByByte(store[k].val).uid : k \in {j \in Keys : IsJson(store[j].val)}}
    \cup UNION {{poll[p].resp.uid, ReadJsonByByte(poll[p].result).uid} : p \in Polls}

\* uid := util.GenerUUID(): a value no one holds. Which one it is does not
\* matter, so the first name not in use is taken.
GenerUUID ==
    LET n == CHOOSE i \in 1..Len(UserUUIDs) :
                 /\ <<UserUUIDs[i]>> \notin UsedUIDs
                 /\ \A j \in 1..(i - 1) : <<UserUUIDs[j]>> \in UsedUIDs
    IN <<UserUUIDs[n]>>

\* The avatar pipeline of the new-account branch: the profile has a usable
\* avatar URL, DownloadImage returned a reader, UploadFile returned no error.
IsUploadAvatar(hasURL, downloaded, uploaded) ==
    IF hasURL /\ downloaded /\ uploaded THEN 1 ELSE 0

\* CbAvatar that returns an error response when the download gave no reader.
CbAvatarAbort(c, hasURL, downloaded, uploaded) ==
    /\ cb[c].pc = "avatar"
    /\ cb' = [cb EXCEPT ![c] =
                IF hasURL /\ ~downloaded THEN Finish(c, "avatar")
                ELSE [@ EXCEPT !.pc = "begin", !.uid = GenerUUID,
                               !.isUploadAvatar =
                                   IsUploadAvatar(hasURL, downloaded, uploaded)]]
    /\ UNCHANGED <<store, users, giteeUsers, tx, poll, nextUUID, age, written, delivered, marker, push>>

\* The new-account branch up to the transaction: the uid is generated, the
\* model is filled in and the avatar is fetched.
CbAvatar(c, hasURL, downloaded, uploaded) ==
    /\ cb[c].pc = "avatar"
    /\ cb' = [cb EXCEPT ![c] =
                [@ EXCEPT !.pc = "begin", !.uid = GenerUUID,
                          !.isUploadAvatar = IsUploadAvatar(hasURL, downloaded, uploaded)]]
    /\ UNCHANGED <<store, users, giteeUsers, tx, poll, nextUUID, age, written, delivered, marker, push>>

\* u.ctx.DB().Begin()
CbBegin(c, dbErr) ==
    /\ cb[c].pc = "begin"
    /\ IF dbErr
       THEN /\ cb' = [cb EXCEPT ![c] = Finish(c, "begin")]
            /\ UNCHANGED tx
       ELSE /\ cb' = [cb EXCEPT ![c] = [@ EXCEPT !.pc = "insert"]]
            /\ tx' = [tx EXCEPT ![c] = [NoTx EXCEPT !.open = TRUE]]
    /\ UNCHANGED <<store, users, giteeUsers, poll, nextUUID, age, written, delivered, marker, push>>

Rollback(c) == [tx EXCEPT ![c] = NoTx]

\* giteeDB.insertTx under the unique index on gitee_user.login: "duplicate" when
\* a committed row has the login, "wait" while another open transaction holds an
\* uncommitted row with it (the insert blocks on that row's lock), else "ok".
insertTx(c, row) ==
    IF \E r \in giteeUsers : r.login = row.login THEN "duplicate"
    ELSE IF \E d \in Callbacks \ {c} : \E r \in tx[d].gitee : r.login = row.login
    THEN "wait"
    ELSE "ok"

\* userInfo.toModel(): the row carries the login
toModel(c) == [login |-> cb[c].login, by |-> c]

\* CbInsert that inserts the row outside the transaction.
CbInsertAutocommit(c, dbErr) ==
    /\ cb[c].pc = "insert"
    /\ LET r == insertTx(c, toModel(c)) IN
       IF dbErr \/ r = "duplicate"
       THEN /\ tx' = Rollback(c)
            /\ cb' = [cb EXCEPT ![c] =
                        Finish(c, IF dbErr THEN "insert" ELSE "insert duplicate")]
            /\ UNCHANGED giteeUsers
       ELSE /\ r = "ok"
            /\ giteeUsers' = giteeUsers \cup {toModel(c)}
            /\ cb' = [cb EXCEPT ![c] = [@ EXCEPT !.pc = "create"]]
            /\ UNCHANGED tx
    /\ UNCHANGED <<store, users, poll, nextUUID, age, written, delivered, marker, push>>

\* CbInsert that goes on to create the account whatever insertTx returned.
CbInsertIgnoreErr(c, dbErr) ==
    /\ cb[c].pc = "insert"
    /\ LET r == insertTx(c, toModel(c)) IN
       /\ r # "wait"
       /\ tx' = IF dbErr \/ r = "duplicate" THEN tx
                ELSE [tx EXCEPT ![c].gitee = @ \cup {toModel(c)}]
       /\ cb' = [cb EXCEPT ![c] = [@ EXCEPT !.pc = "create"]]
    /\ UNCHANGED <<store, users, giteeUsers, poll, nextUUID, age, written, delivered, marker, push>>

\* insertTx and the handler's error branch. dbErr: any other storage error.
CbInsert(c, dbErr) ==
    /\ cb[c].pc = "insert"
    /\ LET r == insertTx(c, toModel(c)) IN
       IF dbErr \/ r = "duplicate"
       THEN /\ tx' = Rollback(c)
            /\ cb' = [cb EXCEPT ![c] =
                        Finish(c, IF dbErr THEN "insert" ELSE "insert duplicate")]
       ELSE /\ r = "ok"
            /\ tx' = [tx EXCEPT ![c].gitee = @ \cup {toModel(c)}]
            /\ cb' = [cb EXCEPT ![c] = [@ EXCEPT !.pc = "create"]]
    /\ UNCHANGED <<store, users, giteeUsers, poll, nextUUID, age, written, delivered, marker, push>>

\* createUserModel with the uid generated for this request
createUserModel(c) ==
    [uid |-> cb[c].uid, giteeUID |-> cb[c].login, isDestroy |-> 0,
     isUploadAvatar |-> cb[c].isUploadAvatar]

\* createUserWithRespAndTx, first part: the account rows are written in the
\* transaction it was given.
createUserTx(c) == [tx EXCEPT ![c].users = @ \cup {createUserModel(c)}]

\* createUserWithRespAndTx, last part: it fails with the error of its commit
\* callback, and with none it returns the login response of the new account.
createUserResp(c, callbackResult) ==
    IF callbackResult = "nil" THEN [uid |-> createUserModel(c).uid] ELSE NoResp

\* The call of createUserWithRespAndTx up to its commit callback; an error
\* comes back to the handler, which rolls back and returns.
CbCreate(c, dbErr) ==
    /\ cb[c].pc = "create"
    /\ IF dbErr
       THEN /\ tx' = Rollback(c)
            /\ cb' = [cb EXCEPT ![c] = Finish(c, "create")]
       ELSE /\ tx' = createUserTx(c)
            /\ cb' = [cb EXCEPT ![c] = [@ EXCEPT !.pc = "commit"]]
    /\ UNCHANGED <<store, users, giteeUsers, poll, nextUUID, age, written, delivered, marker, push>>

\* What the commit callback returns to createUserWithRespAndTx: nil when the
\* commit went through, and nil as well after a failed commit, which it has
\* rolled back and answered with c.ResponseError (lines 203-208).
commitCallback(commitErr) == "nil"

\* The commit callback, then the rest of createUserWithRespAndTx and the
\* handler's check of its error.
CbCommit(c, commitErr) ==
    /\ cb[c].pc = "commit"
    /\ IF commitErr
       THEN UNCHANGED <<users, giteeUsers>>
       ELSE /\ users' = users \cup tx[c].users
            /\ giteeUsers' = giteeUsers \cup tx[c].gitee
    /\ tx' = Rollback(c)
    /\ LET loginResp == createUserResp(c, commitCallback(commitErr)) IN
       cb' = [cb EXCEPT ![c] =
                IF loginResp # NoResp
                THEN [@ EXCEPT !.pc = "write", !.loginResp = loginResp,
                               !.err = IF commitErr THEN "commit" ELSE ""]
                ELSE Finish(c, "commit")]
    /\ UNCHANGED <<store, poll, nextUUID, age, written, delivered, marker, push>>

\* loginRespStr with the pending sentinel as the marker of a nil response.
loginRespStrPending(loginResp) == IF loginResp # NoResp THEN ToJson(loginResp) ELSE <<"1">>

\* lines 217-222: the serialized response, or the failure marker without one
loginRespStr(loginResp) == IF loginResp # NoResp THEN ToJson(loginResp) ELSE <<"0">>

\* CbWrite that writes only over the pending entry (compare and swap).
CbWriteIfPending(c, redisErr) ==
    /\ cb[c].pc = "write"
    /\ LET key == Key(cb[c].authcode) IN
       IF redisErr
       THEN /\ cb' = [cb EXCEPT ![c] = Finish(c, "redis set")]
            /\ UNCHANGED <<store, written, age, delivered>>
       ELSE IF GetString(store, key) # <<"1">>
       THEN /\ cb' = [cb EXCEPT ![c] = [Finish(c, cb[c].err) EXCEPT !.pc = "answer"]]
            /\ UNCHANGED <<store, written, age, delivered>>
       ELSE /\ store' = SetAndExpire(store, key, loginRespStr(cb[c].loginResp), ResultTTL)
            /\ written' = [written EXCEPT ![key] = TRUE]
            /\ delivered' = [delivered EXCEPT ![key] = "no"]
            /\ age' = [a \in Authcodes |->
                         IF a = cb[c].authcode /\ age[a] >= 0 THEN 0 ELSE age[a]]
            /\ cb' = [cb EXCEPT ![c] = [Finish(c, cb[c].err) EXCEPT !.pc = "answer"]]
    /\ UNCHANGED <<users, giteeUsers, tx, poll, nextUUID, marker, push>>

\* The result is written under the key of the state parameter for one minute;
\* after the write the handler is still running, asleep before its answer.
CbWrite(c, redisErr) ==
    /\ cb[c].pc = "write"
    /\ LET key == Key(cb[c].authcode) IN
       IF redisErr
       THEN /\ cb' = [cb EXCEPT ![c] = Finish(c, "redis set")]
            /\ UNCHANGED <<store, written, age, delivered>>
       ELSE /\ store' = SetAndExpire(store, key, loginRespStr(cb[c].loginResp), ResultTTL)
            /\ written' = [written EXCEPT ![key] = TRUE]
            /\ delivered' = [delivered EXCEPT ![key] = "no"]
            /\ age' = [a \in Authcodes |->
                         IF a = cb[c].authcode /\ age[a] >= 0 THEN 0 ELSE age[a]]
            /\ cb' = [cb EXCEPT ![c] = [Finish(c, cb[c].err) EXCEPT !.pc = "answer"]]
    /\ UNCHANGED <<users, giteeUsers, tx, poll, nextUUID, marker, push>>

\* --------------------------------------------------------- EchoooPush.Push

\* PushGet that goes on to the servers whatever the marker holds.
PushGetNoDedup(q, uid, redisErr) ==
    /\ push[q].pc \in {"idle", "done", "panic"}
    /\ push' = [push EXCEPT ![q] =
                  IF redisErr THEN [IdlePush EXCEPT !.pc = "done", !.uid = uid, !.ret = "err"]
                  ELSE IF NumServers > 0
                  THEN [IdlePush EXCEPT !.pc = "post", !.uid = uid, !.server = 1]
                  ELSE [IdlePush EXCEPT !.pc = "done", !.uid = uid, !.ret = "nil"]]
    /\ UNCHANGED <<store, users, giteeUsers, tx, cb, poll, nextUUID, age, written, delivered, marker>>

\* Push(uid, content) up to the loop: the marker is read, and a call that
\* finds one returns nil. redisErr: GetString returns an error.
PushGet(q, uid, redisErr) ==
    /\ push[q].pc \in {"idle", "done", "panic"}
    /\ LET result == GetString(marker, PushKey(uid)) IN
       push' = [push EXCEPT ![q] =
                  IF redisErr THEN [IdlePush EXCEPT !.pc = "done", !.uid = uid, !.ret = "err"]
                  ELSE IF Len(result) > 0
                  THEN [IdlePush EXCEPT !.pc = "done", !.uid = uid, !.ret = "nil"]
                  ELSE IF NumServers > 0
                  THEN [IdlePush EXCEPT !.pc = "post", !.uid = uid, !.server = 1]
                  ELSE [IdlePush EXCEPT !.pc = "done", !.uid = uid, !.ret = "nil"]]
    /\ UNCHANGED <<store, users, giteeUsers, tx, cb, poll, nextUUID, age, written, delivered, marker>>

\* What http.Post hands back: a response and no error ("ok"); an error and no
\* response ("err", the transport failed); an error with a response
\* ("redirects", the redirect policy of the default client gave up).
PostOutcomes == {"ok", "err", "redirects"}

\* One turn of the loop up to the branch on err. The deferred call of line 66
\* evaluates resp.Body before err is looked at: with a nil response the call
\* panics there and Push does not return.
PushPost(q, outcome) ==
    /\ push[q].pc = "post"
    /\ push' = [push EXCEPT ![q] =
                  IF outcome = "err" THEN [@ EXCEPT !.pc = "panic"]
                  ELSE IF outcome = "redirects"
                  THEN IF @.server < NumServers
                       THEN [@ EXCEPT !.server = @ + 1]
                       ELSE [@ EXCEPT !.pc = "done", !.ret = "nil"]
                  ELSE [@ EXCEPT !.pc = "mark", !.sent = TRUE]]
    /\ UNCHANGED <<store, users, giteeUsers, tx, cb, poll, nextUUID, age, written, delivered, marker>>

\* The else branch: the marker is set for five minutes (the error of
\* SetAndExpire is dropped), the loop is left and Push returns nil.
PushMark(q, redisErr) ==
    /\ push[q].pc = "mark"
    /\ marker' = IF redisErr THEN marker
                 ELSE SetAndExpire(marker, PushKey(push[q].uid), <<"1">>, PushTTL)
    /\ push' = [push EXCEPT ![q] = [@ EXCEPT !.pc = "done", !.ret = "nil"]]
    /\ UNCHANGED <<store, users, giteeUsers, tx, cb, poll, nextUUID, age, written, delivered>>

\* time.Sleep is over: the handler answers and returns.
CbAnswer(c) ==
    /\ cb[c].pc = "answer"
    /\ cb' = [cb EXCEPT ![c] = [@ EXCEPT !.pc = "done"]]
    /\ UNCHANGED <<store, users, giteeUsers, tx, poll, nextUUID, age, written, delivered, marker, push>>

\* ------------------------------------------------------------ specification

\* The callback requests of the handlers Cs carrying a state parameter of As.
CallbackNext(Cs, As) ==
    \/ \E c \in Cs, pr \in Providers, code \in {<<>>, <<"X">>}, a \in As :
          CbStart(c, pr, code, a)
    \/ \E c \in Cs, te \in BOOLEAN, ie \in BOOLEAN, g \in Logins :
          CbResolve(c, te, ie, g)
    \/ \E c \in Cs, e \in BOOLEAN : CbQuery(c, e)
    \/ \E c \in Cs, o \in {"resp", "err", "nil"} : CbLogin(c, o)
    \/ \E c \in Cs, h \in BOOLEAN, d \in BOOLEAN, u \in BOOLEAN :
          CbAvatar(c, h, d, u)
    \/ \E c \in Cs, e \in BOOLEAN : CbBegin(c, e)
    \/ \E c \in Cs, e \in BOOLEAN : CbInsert(c, e)
    \/ \E c \in Cs, e \in BOOLEAN : CbCreate(c, e)
    \/ \E c \in Cs, e \in BOOLEAN : CbCommit(c, e)
    \/ \E c \in Cs, e \in BOOLEAN : CbWrite(c, e)
    \/ \E c \in Cs : CbAnswer(c)

\* The authcodes thirdAuthcode has handed to a client. A UUID is not known to
\* anyone before that, so a request carries one of these or some other string.
IssuedAuthcodes == {a \in Authcodes : age[a] >= 0}

\* One client and one provider redirect at a time.
Next ==
    \/ \E e \in BOOLEAN : thirdAuthcode(e)
    \/ \E a \in IssuedAuthcodes, e \in BOOLEAN : PollGet("p1", a, e)
    \/ \E e \in BOOLEAN : PollDel("p1", e)
    \/ \E pr \in Providers, code \in {<<>>, <<"X">>}, a \in IssuedAuthcodes :
          CbStart("c1", pr, code, a)
    \/ \E te \in BOOLEAN, ie \in BOOLEAN, g \in Logins : CbResolve("c1", te, ie, g)
    \/ \E e \in BOOLEAN : CbQuery("c1", e)
    \/ \E o \in {"resp", "err", "nil"} : CbLogin("c1", o)
    \/ \E h \in BOOLEAN, d \in BOOLEAN, u \in BOOLEAN : CbAvatar("c1", h, d, u)
    \/ \E e \in BOOLEAN : CbBegin("c1", e)
    \/ \E e \in BOOLEAN : CbInsert("c1", e)
    \/ \E e \in BOOLEAN : CbCreate("c1", e)
    \/ \E e \in BOOLEAN : CbCommit("c1", e)
    \/ \E e \in BOOLEAN : CbWrite("c1", e)
    \/ CbAnswer("c1")
    \/ Tick

Spec == Init /\ [][Next]_vars

\* The same requests for one provider identity without avatar.
NextHandshake ==
    \/ \E e \in BOOLEAN : thirdAuthcode(e)
    \/ \E a \in IssuedAuthcodes, e \in BOOLEAN : PollGet("p1", a, e)
    \/ \E e \in BOOLEAN : PollDel("p1", e)
    \/ \E pr \in Providers, code \in {<<>>, <<"X">>}, a \in IssuedAuthcodes :
          CbStart("c1", pr, code, a)
    \/ \E te \in BOOLEAN, ie \in BOOLEAN : CbResolve("c1", te, ie, "g1")
    \/ \E e \in BOOLEAN : CbQuery("c1", e)
    \/ \E o \in {"resp", "err", "nil"} : CbLogin("c1", o)
    \/ CbAvatar("c1", FALSE, FALSE, FALSE)
    \/ \E e \in BOOLEAN : CbBegin("c1", e)
    \/ \E e \in BOOLEAN : CbInsert("c1", e)
    \/ \E e \in BOOLEAN : CbCreate("c1", e)
    \/ \E e \in BOOLEAN : CbCommit("c1", e)
    \/ \E e \in BOOLEAN : CbWrite("c1", e)
    \/ CbAnswer("c1")
    \/ Tick

SpecHandshake == Init /\ [][NextHandshake]_vars

\* The requests of SpecHandshake, every error exit of the handlers included
\* (provider, database, login and redis), with time that advances, a poll that
\* has read a payload going on to answer, and a client that keeps polling every
\* authcode it was given, its reads of redis succeeding again and again.
SpecLive ==
    /\ Init /\ [][NextHandshake]_vars
    /\ WF_vars(Tick)
    /\ WF_vars(\E e \in BOOLEAN : PollDel("p1", e))
    /\ \A a \in Authcodes : SF_vars(a \in IssuedAuthcodes /\ PollGet("p1", a, FALSE))

\* Two provider redirects in flight at once, against the database.
NextProvision == CallbackNext(Callbacks, {<<>>})

SpecProvision == Init /\ [][NextProvision]_vars

\* One provider redirect at a time, against the database.
NextAvatar == CallbackNext({"c1"}, {<<>>})

SpecAvatar == Init /\ [][NextAvatar]_vars

\* Two clients polling at once, around a single provider redirect, with a
\* redis whose Del does not fail: a payload is written at most once and a
\* poll that returns it has deleted it.
NextPollRace ==
    \/ \E e \in BOOLEAN : thirdAuthcode(e)
    \/ \E p \in Polls, a \in IssuedAuthcodes, e \in BOOLEAN : PollGet(p, a, e)
    \/ \E p \in Polls : PollDel(p, FALSE)
    \/ \E pr \in Providers, a \in IssuedAuthcodes :
          cb["c1"].pc = "idle" /\ CbStart("c1", pr, <<"X">>, a)
    \/ \E g \in Logins : CbResolve("c1", FALSE, FALSE, g)
    \/ \E e \in BOOLEAN : CbQuery("c1", e)
    \/ \E o \in {"resp", "err", "nil"} : CbLogin("c1", o)
    \/ \E h \in BOOLEAN, d \in BOOLEAN, u \in BOOLEAN : CbAvatar("c1", h, d, u)
    \/ \E e \in BOOLEAN : CbBegin("c1", e)
    \/ \E e \in BOOLEAN : CbInsert("c1", e)
    \/ \E e \in BOOLEAN : CbCreate("c1", e)
    \/ \E e \in BOOLEAN : CbCommit("c1", e)
    \/ \E e \in BOOLEAN : CbWrite("c1", e)
    \/ CbAnswer("c1")

SpecPollRace == Init /\ [][NextPollRace]_vars

\* Calls of Push, two at a time, against redis and the configured servers.
NextPush ==
    \/ \E q \in Pushers, u \in Uids, e \in BOOLEAN : PushGet(q, u, e)
    \/ \E q \in Pushers, o \in PostOutcomes : PushPost(q, o)
    \/ \E q \in Pushers, e \in BOOLEAN : PushMark(q, e)
    \/ Tick

SpecPush == Init /\ [][NextPush]_vars

\* ------------------------------------------------------------------ claims

\* What a finished poll answered.
Pending(r) == r.pc = "done" /\ r.err = "" /\ r.status = 0
Succeeded(r) == r.pc = "done" /\ r.err = "" /\ r.status = 1
Failed(r) == r.pc = "done" /\ r.err = "" /\ r.status = 2
NotFound(r) == r.pc = "done" /\ r.err = "expired"

\* This step is poll p reading the entry of authcode a from redis.
Polled(p, a) ==
    /\ poll[p].pc \in {"idle", "done"}
    /\ poll'[p] # poll[p]
    /\ poll'[p].authcode = a
    /\ poll'[p].err # "redis"

\* This step is poll p sending its response for authcode a.
Answered(p, a) ==
    /\ poll'[p] # poll[p]
    /\ poll'[p].pc = "done"
    /\ poll'[p].authcode = a
    /\ poll'[p].err # "redis"

IsPayload(val) == Len(val) > 0 /\ val # <<"1">> /\ val # <<"0">>

\* C1: every poll for an issued authcode made before any callback has written
\* under it and before the 5 minutes of the pending entry are over answers
\* Pending (status 0).
C1_PendingUntilCallback ==
    [][\A p \in Polls, a \in Authcodes :
          Polled(p, a) /\ age[a] \in 0..(PendingTTL - 1) /\ ~written[Key(a)]
          => Pending(poll'[p])]_vars

\* C1 witness: a poll answered Pending in the last minute of the pending entry.
C1_Witness ==
    \E p \in Polls, a \in Authcodes :
        /\ Pending(poll[p]) /\ poll[p].authcode = a
        /\ age[a] = PendingTTL - 1 /\ ~written[Key(a)]

\* C2: once a callback has written a payload, a poll that reads it answers
\* Succeeded with that payload, and after that answer (its delete having
\* succeeded) every poll for the authcode answers NotFound.
C2_SucceededOnce ==
    [][\A p \in Polls, a \in Authcodes :
          /\ Polled(p, a) /\ IsPayload(GetString(store, Key(a)))
             => poll'[p].pc = "del" /\ poll'[p].result = GetString(store, Key(a))
          /\ poll[p].pc = "del" /\ Answered(p, a)
             => Succeeded(poll'[p]) /\ ToJson(poll'[p].resp) = poll[p].result
          /\ Answered(p, a) /\ delivered[Key(a)] = "yes"
             => NotFound(poll'[p])]_vars

\* C2 witness: the payload was returned by a poll and a later poll for the same
\* authcode answered NotFound.
C2_Witness ==
    \E p \in Polls, a \in Authcodes :
        NotFound(poll[p]) /\ poll[p].authcode = a /\ delivered[Key(a)] = "yes"

\* C3 as claimed: a poll that reads the failure marker answers Failed and
\* deletes the entry, so that the next poll answers NotFound.
C3_FailedOnce ==
    [][\A p \in Polls, a \in Authcodes :
          Polled(p, a) /\ GetString(store, Key(a)) = <<"0">>
          => Failed(poll'[p]) /\ store'[Key(a)] = Absent]_vars

\* C10: a poll made 5 minutes or more after the issue of an authcode under
\* which no callback has written answers NotFound, and a poll that finds the
\* pending entry leaves the entry and its time to live as they are.
C10_ExpiresAfterFiveMinutes ==
    [][\A p \in Polls, a \in Authcodes :
          /\ Polled(p, a) /\ age[a] >= PendingTTL /\ ~written[Key(a)]
             => NotFound(poll'[p])
          /\ Polled(p, a) /\ GetString(store, Key(a)) = <<"1">>
             => store' = store]_vars

\* C10 witness: NotFound for an issued authcode, five minutes after its issue.
C10_Witness ==
    \E p \in Polls, a \in Authcodes :
        /\ NotFound(poll[p]) /\ poll[p].authcode = a
        /\ age[a] = PendingTTL /\ ~written[Key(a)]

\* C4 as claimed: when the token exchange or the profile fetch of a callback
\* for a pending authcode fails, the entry holds the failure marker once the
\* handler has returned.
C4_ProviderFailureResolvesFailed ==
    [][\A c \in Callbacks :
          /\ cb[c].pc = "resolve" /\ cb'[c].pc = "done"
          /\ GetString(store, Key(cb[c].authcode)) = <<"1">>
          => GetString(store', Key(cb[c].authcode)) = <<"0">>]_vars

ProvisionErrors == {"insert", "insert duplicate", "create", "commit"}

\* C5 as claimed: when the gitee_user insert, the account creation or the
\* commit of a callback for a pending authcode fails, the entry holds the failure marker once the
\* handler has returned, and no row of this provisioning is in the tables.
C5_ProvisionFailureResolvesFailed ==
    [][\A c \in Callbacks :
          /\ cb[c].pc # "done" /\ cb'[c].pc = "done" /\ cb'[c].err \in ProvisionErrors
          /\ GetString(store, Key(cb[c].authcode)) = <<"1">>
          => /\ GetString(store', Key(cb[c].authcode)) = <<"0">>
             /\ ~\E u \in users' : u.uid = cb[c].uid
             /\ ~\E r \in giteeUsers' : r = [login |-> cb[c].login, by |-> c]]_vars

\* C6: in every committed state of the tables a login has a gitee_user row
\* exactly if it has an account.
C6_LinkedIffAccount ==
    \A g \in Logins :
        (\E r \in giteeUsers : r.login = g) <=> (\E u \in users : u.giteeUID = g)

\* C6 witness: a provisioning has failed in the transaction and another one
\* has created an account.
C6_Witness ==
    /\ \E c \in Callbacks : cb[c].pc = "done" /\ cb[c].err \in {"insert", "create", "commit"}
    /\ \E u \in users : u.isDestroy = 0

\* Callbacks c and d have both taken the new-account branch for one login, and
\* neither met a storage error other than the duplicate.
Raced(c, d) ==
    /\ c # d
    /\ cb[c].pc = "done" /\ cb[d].pc = "done"
    /\ cb[c].branch = "create" /\ cb[d].branch = "create"
    /\ cb[c].login = cb[d].login
    /\ cb[c].err \in {"", "insert duplicate"} /\ cb[d].err \in {"", "insert duplicate"}

\* C7: no login ever has two accounts or two gitee_user rows, and of two
\* callbacks that both found no account for the login exactly one created the
\* pair while the other one's insert failed on the duplicate.
C7_OnePairPerIdentity ==
    /\ \A g \in Logins :
          /\ Cardinality({u \in users : u.giteeUID = g}) <= 1
          /\ Cardinality({r \in giteeUsers : r.login = g}) <= 1
    /\ \A c, d \in Callbacks :
          Raced(c, d)
          => /\ Cardinality({u \in users : u.giteeUID = cb[c].login}) = 1
             /\ Cardinality({r \in giteeUsers : r.login = cb[c].login}) = 1
             /\ (cb[c].err = "insert duplicate") # (cb[d].err = "insert duplicate")

\* C7 witness: the race has happened, one callback won and the other lost.
C7_Witness ==
    \E c, d \in Callbacks :
        Raced(c, d) /\ cb[c].err = "" /\ cb[d].err = "insert duplicate"

\* C8: a callback that finds the account destroyed returns an error without a
\* login response and without writing to redis, and redis never holds the
\* payload of a destroyed account.
C8_DestroyedBlocksSession ==
    /\ [](\A k \in Keys, u \in users :
            u.isDestroy = 1 => store[k].val # ToJson([uid |-> u.uid]))
    /\ [][\A c \in Callbacks :
            cb[c].pc = "login" /\ cb[c].userInfoM.isDestroy = 1 /\ cb'[c] # cb[c]
            => /\ cb'[c].pc = "done" /\ cb'[c].err = "user not exist"
               /\ cb'[c].loginResp = NoResp
               /\ store' = store]_vars

\* C8 witness: a callback was refused because the account is destroyed.
C8_Witness ==
    \E c \in Callbacks : cb[c].pc = "done" /\ cb[c].err = "user not exist"

\* C9: a callback with an empty code returns its error at once and leaves
\* redis, the tables and the transactions as they are.
C9_EmptyCodeChangesNothing ==
    [][\A c \in Callbacks, pr \in Providers, a \in Authcodes :
          CbStart(c, pr, <<>>, a)
          => /\ cb'[c].pc = "done" /\ cb'[c].err = "empty code"
             /\ UNCHANGED <<store, users, giteeUsers, tx>>]_vars

\* C9 witness: the callback was rejected for its empty code and the entry of
\* an issued authcode is still pending.
C9_Witness ==
    /\ \E c \in Callbacks : cb[c].pc = "done" /\ cb[c].err = "empty code"
    /\ \E a \in Authcodes : GetString(store, Key(a)) = <<"1">>

\* C11: whatever fails in the avatar pipeline (no reader from the download,
\* an upload error), the callback goes on to open the transaction with the
\* avatar flag unset; the flag is carried unchanged through the database
\* steps, and a successful commit creates the account with that flag.
C11_AvatarFailureKeepsProvisioning ==
    [][\A c \in Callbacks :
          /\ \A downloaded, uploaded \in BOOLEAN :
                CbAvatar(c, TRUE, downloaded, uploaded) /\ ~(downloaded /\ uploaded)
                => /\ cb'[c].pc = "begin" /\ cb'[c].isUploadAvatar = 0
                   /\ cb'[c].err = ""
          /\ cb[c].pc \in {"begin", "insert", "create"} /\ cb'[c].pc # "done"
                => cb'[c].isUploadAvatar = cb[c].isUploadAvatar
          /\ CbCommit(c, FALSE)
                => \E u \in users' :
                      /\ u.uid = cb[c].uid
                      /\ u.isDestroy = 0
                      /\ u.isUploadAvatar = cb[c].isUploadAvatar]_vars

\* C11 witness: an account provisioned by a callback exists with its avatar
\* flag unset.
C11_Witness ==
    \E u \in users :
        /\ u.uid \in {<<UserUUIDs[i]>> : i \in 1..Len(UserUUIDs)}
        /\ u.isDestroy = 0
        /\ u.isUploadAvatar = 0

\* C12: no step writes the pending sentinel over a result (payload or failure
\* marker), and once a callback has written under an authcode no poll for
\* that authcode answers Pending.
C12_NeverBackToPending ==
    [][/\ \A a \in Authcodes :
             GetString(store, Key(a)) \notin {<<>>, <<"1">>}
             => GetString(store', Key(a)) # <<"1">>
       /\ \A p \in Polls, a \in Authcodes :
             Polled(p, a) /\ written[Key(a)] => ~Pending(poll'[p])]_vars

\* C12 witness: after a callback wrote the failure marker under an authcode, a
\* poll for it answered Failed.
C12_Witness ==
    \E p \in Polls, a \in Authcodes :
        Failed(poll[p]) /\ poll[p].authcode = a /\ written[Key(a)]

\* C13: the answer of a poll is determined by the value it read from redis:
\* "1" gives status 0, "0" gives status 2, any other non-empty value gives
\* status 1 with the value parsed as the response, and an absent or empty
\* value gives the expired error; only an answer of status 1 carries a login
\* response.
C13_AnswerFromStoredValue ==
    [][\A p \in Polls, a \in Authcodes :
          /\ Polled(p, a) =>
                LET v == GetString(store, Key(a)) IN
                /\ Len(v) = 0 => NotFound(poll'[p])
                /\ v = <<"1">> => Pending(poll'[p])
                /\ v = <<"0">> => Failed(poll'[p])
                /\ IsPayload(v) => poll'[p].pc = "del" /\ poll'[p].result = v
          /\ poll[p].pc = "del" /\ Answered(p, a)
                => /\ Succeeded(poll'[p])
                   /\ poll'[p].resp = ReadJsonByByte(poll[p].result)
          /\ poll'[p].resp # NoResp => Succeeded(poll'[p])]_vars

\* C13 witness: a poll answered status 1 with the login response of the
\* payload the callback had written.
C13_Witness ==
    \E p \in Polls, c \in Callbacks :
        /\ Succeeded(poll[p]) /\ poll[p].resp # NoResp
        /\ cb[c].pc = "done" /\ cb[c].err = ""

\* C14 as claimed: no step of a callback whose state parameter is empty
\* writes to redis or to the tables.
C14_EmptyStateRejected ==
    [][\A c \in Callbacks :
          cb[c].pc \notin {"idle", "done"} /\ cb[c].authcode = <<>> /\ cb'[c] # cb[c]
          => UNCHANGED <<store, users, giteeUsers>>]_vars

\* C16 as claimed: whenever redis holds a payload under the key of an
\* authcode, the account the payload names is a committed row of the user
\* table.
C16_PayloadMeansCommitted ==
    \A a \in Authcodes :
        IsPayload(GetString(store, Key(a)))
        => \E u \in users : u.uid = ReadJsonByByte(GetString(store, Key(a))).uid

\* C17 as claimed: of the polls that run against the one payload a single
\* callback has written under an authcode, at most one has answered
\* Succeeded.
C17_OnePollSucceeds ==
    \A a \in Authcodes :
        Cardinality({p \in Polls : Succeeded(poll[p]) /\ poll[p].authcode = a}) <= 1

\* C18: for every issued authcode the polling client eventually holds an
\* answer other than Pending (Succeeded, Failed or NotFound), and no poll made
\* 5 minutes or more after the issue, or after a callback has written, answers
\* Pending.
C18_NoPendingForever ==
    /\ \A a \in Authcodes :
          (age[a] >= 0) ~>
             \E p \in Polls :
                /\ poll[p].authcode = a
                /\ Succeeded(poll[p]) \/ Failed(poll[p]) \/ NotFound(poll[p])
    /\ [][\A p \in Polls, a \in Authcodes :
             Polled(p, a) /\ (age[a] >= PendingTTL \/ written[Key(a)])
             => ~Pending(poll'[p])]_vars

\* C18 witness: the client was answered Pending for an issued authcode before,
\* no callback has written under it, and the client now holds NotFound.
C18_Witness ==
    \E p \in Polls, a \in Authcodes :
        /\ NotFound(poll[p]) /\ poll[p].authcode = a
        /\ age[a] >= 0 /\ ~written[Key(a)]
        /\ \A c \in Callbacks : cb[c].pc = "idle"

\* C19 as claimed: a callback changes the entry of its authcode only when the
\* entry is the pending one.
C19_WriteOnlyOverPending ==
    [][\A c \in Callbacks :
          cb[c].pc = "write" /\ cb'[c] # cb[c] /\ store' # store
          => GetString(store, Key(cb[c].authcode)) = <<"1">>]_vars

\* C19 amended: a callback request writes to redis in one step only, its last,
\* and there it sets the entry of its state parameter to the serialized
\* response or the failure marker for one minute, whatever the entry held:
\* the pending sentinel, an earlier result, or nothing.
C19_LastWriterWins ==
    [][\A c \in Callbacks :
          cb'[c] # cb[c]
          => IF cb[c].pc = "write" /\ cb'[c].err # "redis set"
             THEN /\ store' = SetAndExpire(store, Key(cb[c].authcode),
                                           loginRespStr(cb[c].loginResp), ResultTTL)
                  /\ cb'[c].pc = "answer"
             ELSE store' = store]_vars

\* C19 witness: a poll found nothing under an issued authcode (expired or
\* consumed), and a callback has since written a result under it.
C19_Witness ==
    \E p \in Polls, a \in Authcodes :
        /\ NotFound(poll[p]) /\ poll[p].authcode = a
        /\ GetString(store, Key(a)) \notin {<<>>, <<"1">>}

\* This step is call q of Push for uid u reading the marker from redis.
PushStarted(q, u) ==
    /\ push[q].pc \in {"idle", "done", "panic"}
    /\ push'[q] # push[q]
    /\ push'[q].uid = u
    /\ push'[q].pc = "post" \/ (push'[q].pc = "done" /\ push'[q].server = 0)
    /\ push'[q].ret # "err"

\* C15: a Push for a uid that starts while redis holds the marker of that
\* uid (set after a delivered post, not yet expired) posts to no server,
\* leaves the marker and its time to live as they are, and returns nil.
C15_MarkerSuppressesPush ==
    [][\A q \in Pushers, u \in Uids :
          PushStarted(q, u) /\ Len(GetString(marker, PushKey(u))) > 0
          => /\ push'[q].pc = "done" /\ push'[q].ret = "nil"
             /\ push'[q].server = 0 /\ ~push'[q].sent
             /\ marker' = marker]_vars

\* C15 witness: one call has delivered its post for a uid and set the marker,
\* and another call for the same uid, started minutes later with the marker
\* still there, has returned nil without a post.
C15_Witness ==
    \E q, r \in Pushers, u \in Uids :
        /\ push[q].pc = "done" /\ push[q].uid = u /\ push[q].sent
        /\ push[r].pc = "done" /\ push[r].uid = u /\ push[r].ret = "nil"
        /\ push[r].server = 0
        /\ marker[PushKey(u)].ttl \in 1..(PushTTL - 1)

\* C20 as claimed: a turn of the loop whose post failed leaves the marker as
\* it is and goes on to the next server, or returns nil after the last one.
C20_FailedPostTriesNextServer ==
    [][\A q \in Pushers :
          push[q].pc = "post" /\ push'[q] # push[q] /\ ~push'[q].sent
          => /\ marker' = marker
             /\ IF push[q].server < NumServers
                THEN push'[q].pc = "post" /\ push'[q].server = push[q].server + 1
                ELSE push'[q].pc = "done" /\ push'[q].ret = "nil"]_vars

\* C21 as claimed: two calls of Push for the same uid that are in flight
\* together, both having read redis without a marker, have not both had a
\* post answered: at most one of them is past its post and before its write
\* of the marker.
C21_OneNotificationWhenConcurrent ==
    \A q, r \in Pushers :
        q # r /\ push[q].uid = push[r].uid
        => ~(/\ push[q].pc = "mark" /\ push[q].sent
             /\ push[r].pc = "mark" /\ push[r].sent)

====
